---- MODULE Spec2Model ----
(***************************************************************************)
(* Model of src/src/_pareto_sort/mod.rs: the dominance predicate           *)
(* is_dominated, the three-way domination_order and the incremental front  *)
(* builder pareto_sort_rs.                                                 *)
(*                                                                         *)
(* A point is a sequence of coordinates.  Coordinates are f64 in the       *)
(* source; the model draws them from 0..MaxVal, a finite totally ordered   *)
(* range on which >= and > behave as they do on finite floats.             *)
(***************************************************************************)
EXTENDS Integers, Sequences, FiniteSets

\* Bounds of the model.
MaxVal == 2
MaxDim == 2
MaxLen == 3

VARIABLES
    points,        \* pareto_sort_rs: the input slice `points`
    pareto_front,  \* pareto_sort_rs: the local `pareto_front`
    idx,           \* pareto_sort_rs: number of input points the for loop has consumed
    pc,            \* pareto_sort_rs: "loop" while in the for loop, "done" once returned,
                   \*                 "idle" when the function is not running
    a,             \* argument a of a direct call of is_dominated / domination_order
    b,             \* argument b of that call
    call,          \* which function was called directly: "none", "is_dominated", "domination_order"
    ret            \* <<value>> returned by that call, <<>> before it

vars == <<points, pareto_front, idx, pc, a, b, call, ret>>

Values == 0..MaxVal

\* All points of a given dimension d.
PointsOfDim(d) == [1..d -> Values]

\* All points of any modelled dimension.
AnyPoints == UNION {PointsOfDim(d) : d \in 1..MaxDim}

Min(x, y) == IF x <= y THEN x ELSE y

\* a.iter().zip(b.iter()): the zip stops at the shorter of the two slices.
ZipIdx(x, y) == 1..Min(Len(x), Len(y))

\* fn is_dominated(a, b): a_ge_b && a_gt_b
is_dominated_no_strict(x, y) ==
    \A k \in ZipIdx(x, y) : x[k] >= y[k]

is_dominated(x, y) ==
    LET a_ge_b == \A k \in ZipIdx(x, y) : x[k] >= y[k]
        a_gt_b == \E k \in ZipIdx(x, y) : x[k] > y[k]
    IN  a_ge_b /\ a_gt_b

\* fn domination_order(a, b)
domination_order(x, y) ==
    IF is_dominated(x, y) THEN "Greater"
    ELSE IF is_dominated(y, x) THEN "Less"
    ELSE "Equal"

\* The value the retain closure returns for member p: only the Greater arm is `true`.
retain_keeps(p, point) ==
    domination_order(p, point) = "Greater"

\* Whether the retain closure sets `dominated = true` for member p: the Less and Equal arms.
sets_dominated_less_only(p, point) ==
    domination_order(p, point) = "Less"

sets_dominated(p, point) ==
    domination_order(p, point) \in {"Less", "Equal"}

\* One iteration of the for loop: retain over the front, then the conditional push.
process_point(front, point) ==
    LET kept == SelectSeq(front, LAMBDA p : retain_keeps(p, point))
        dominated == \E k \in DOMAIN front : sets_dominated(front[k], point)
    IN  IF ~dominated THEN Append(kept, point) ELSE kept

\* pareto_sort_rs as a function of its input: the loop folded over the points.
RECURSIVE pareto_sort_rs(_)
pareto_sort_rs(pts) ==
    IF pts = <<>> THEN <<>>
    ELSE process_point(pareto_sort_rs(SubSeq(pts, 1, Len(pts) - 1)), pts[Len(pts)])

----------------------------------------------------------------------------
\* Inputs.

\* Sequences of at most MaxLen points that all have the same dimension.
EqualLengthInputs ==
    UNION {[1..n -> PointsOfDim(d)] : n \in 0..MaxLen, d \in 1..MaxDim}

\* Sequences of at most MaxLen points of any dimensions (the binding passes any Vec<Vec<f64>>).
AnyInputs == UNION {[1..n -> AnyPoints] : n \in 0..MaxLen}

NoCall == a = <<>> /\ b = <<>> /\ call = "none" /\ ret = <<>>

\* pareto_sort_rs entered with equal-length points.
Init ==
    /\ points \in EqualLengthInputs
    /\ pareto_front = <<>>
    /\ idx = 0
    /\ pc = "loop"
    /\ NoCall

\* pareto_sort_rs entered with arbitrary points.
InitAny ==
    /\ points \in AnyInputs
    /\ pareto_front = <<>>
    /\ idx = 0
    /\ pc = "loop"
    /\ NoCall

\* A direct call of is_dominated or domination_order on two equal-length slices.
InitDom ==
    /\ \E d \in 1..MaxDim : a \in PointsOfDim(d) /\ b \in PointsOfDim(d)
    /\ call = "none"
    /\ ret = <<>>
    /\ points = <<>>
    /\ pareto_front = <<>>
    /\ idx = 0
    /\ pc = "idle"

----------------------------------------------------------------------------
\* Actions.

\* for point in points.iter() { ... }: one iteration.
Step ==
    /\ pc = "loop"
    /\ idx < Len(points)
    /\ idx' = idx + 1
    /\ pareto_front' = process_point(pareto_front, points[idx + 1])
    /\ UNCHANGED <<points, pc, a, b, call, ret>>

\* The loop is exhausted and pareto_front is returned.
Return ==
    /\ pc = "loop"
    /\ idx = Len(points)
    /\ pc' = "done"
    /\ UNCHANGED <<points, pareto_front, idx, a, b, call, ret>>

CallIsDominated ==
    /\ call = "none"
    /\ pc = "idle"
    /\ call' = "is_dominated"
    /\ ret' = <<is_dominated(a, b)>>
    /\ UNCHANGED <<points, pareto_front, idx, pc, a, b>>

CallDominationOrder ==
    /\ call = "none"
    /\ pc = "idle"
    /\ call' = "domination_order"
    /\ ret' = <<domination_order(a, b)>>
    /\ UNCHANGED <<points, pareto_front, idx, pc, a, b>>

Next == Step \/ Return

NextDom == CallIsDominated \/ CallDominationOrder

Spec == Init /\ [][Next]_vars

SpecAny == InitAny /\ [][Next]_vars

SpecDom == InitDom /\ [][NextDom]_vars

----------------------------------------------------------------------------
\* Vocabulary of the properties (higher is better, as the specification defines it).

\* q dominates p: q is >= p on every coordinate and > p on at least one.
Dominates(q, p) ==
    /\ Len(q) = Len(p)
    /\ \A k \in 1..Len(p) : q[k] >= p[k]
    /\ \E k \in 1..Len(p) : q[k] > p[k]

\* Number of positions of sequence s that hold the point p.
Count(s, p) == Cardinality({k \in DOMAIN s : s[k] = p})

PairwiseDistinct(s) == \A x, y \in DOMAIN s : x # y => s[x] # s[y]

NoInternalDomination(s) == \A x, y \in DOMAIN s : ~Dominates(s[x], s[y])

\* s is r with some positions deleted (r without repeated elements).
IsSubSeqOf(s, r) == s = SelectSeq(r, LAMBDA m : \E k \in DOMAIN s : s[k] = m)

\* All reorderings of the sequence s.
PermutationsOf(s) ==
    {[k \in DOMAIN s |-> s[f[k]]] :
        f \in {g \in [DOMAIN s -> DOMAIN s] : \A x, y \in DOMAIN s : x # y => g[x] # g[y]}}

SetOf(s) == {s[k] : k \in DOMAIN s}

----------------------------------------------------------------------------
\* C1: the front returned by pareto_sort_rs contains no two points one of which
\* dominates the other.  (Stated as claimed; the code violates it.)
C1_NoDominationInFront ==
    pc = "done" =>
        \A x, y \in DOMAIN pareto_front : ~Dominates(pareto_front[x], pareto_front[y])

\* C2: completeness: for pairwise distinct input, every input point absent from the
\* returned front is dominated by some input point.  (Stated as claimed; violated.)
C2_Completeness ==
    (pc = "done" /\ PairwiseDistinct(points)) =>
        \A k \in DOMAIN points :
            Count(pareto_front, points[k]) = 0 =>
                \E j \in DOMAIN points : Dominates(points[j], points[k])

\* C3 as claimed: is_dominated(a, b) is true iff every coordinate of a is <= that of b
\* and at least one is strictly less.  (Violated: the code tests the opposite direction.)
C3_AsClaimed ==
    call = "is_dominated" =>
        (ret[1] <=> ( /\ \A k \in 1..Len(a) : a[k] <= b[k]
                      /\ \E k \in 1..Len(a) : a[k] < b[k] ))

\* C3 amended: for equal-length a and b, is_dominated(a, b) is true iff every coordinate
\* of a is >= that of b and at least one coordinate of a is strictly greater.
C3_IsDominatedGe ==
    call = "is_dominated" =>
        (ret[1] <=> ( /\ \A k \in 1..Len(a) : a[k] >= b[k]
                      /\ \E k \in 1..Len(a) : a[k] > b[k] ))

\* C3 witness: a call on two-coordinate vectors that tie on the first coordinate and
\* differ on the second has returned true.
C3_Witness ==
    /\ call = "is_dominated"
    /\ ret = <<TRUE>>
    /\ Len(a) = 2
    /\ a[1] = b[1]
    /\ a[2] > b[2]

\* C4: identical input points that no input point dominates leave exactly one copy in
\* the returned front.  (Stated as claimed; violated.)
C4_DuplicatesCollapseToOne ==
    pc = "done" =>
        \A k \in DOMAIN points :
            ( /\ Count(points, points[k]) >= 2
              /\ \A j \in DOMAIN points : ~Dominates(points[j], points[k]) )
            => Count(pareto_front, points[k]) = 1

\* C5: on pairwise distinct, pairwise incomparable input the returned front is the
\* input as a multiset.  (Stated as claimed; violated.)
C5_IdempotentOnOptimal ==
    (pc = "done" /\ PairwiseDistinct(points) /\ NoInternalDomination(points)) =>
        \A p \in SetOf(points) \cup SetOf(pareto_front) :
            Count(pareto_front, p) = Count(points, p)

\* C6: the set of points of the returned front is the same for every permutation of
\* the input.  (Stated as claimed; violated.)
C6_OrderIndependent ==
    pc = "done" =>
        \A q \in PermutationsOf(points) : SetOf(pareto_sort_rs(q)) = SetOf(pareto_front)

\* C7: an iteration that compares the incoming point with a front member of a
\* different coordinate count aborts: the run panics, the front is not carried on
\* and nothing is returned.  (Stated as claimed; violated: zip truncates silently.)
C7_MismatchAborts ==
    [][ ( /\ pc = "loop"
          /\ idx < Len(points)
          /\ \E m \in DOMAIN pareto_front :
                Len(pareto_front[m]) # Len(points[idx + 1]) )
        => pc' = "panicked" ]_vars

\* C8: when one input point dominates every other input point, the result is exactly
\* that point.  (Stated as claimed; violated.)
C8_MaximalPointOnly ==
    pc = "done" =>
        \A k \in DOMAIN points :
            (\A j \in DOMAIN points : j # k => Dominates(points[k], points[j]))
            => pareto_front = <<points[k]>>

\* C9: the result has the length of the input, and an input point that dominates all
\* the others is result[0].  (Stated as claimed; violated.)
C9_OrderingOfAllPoints ==
    pc = "done" =>
        /\ Len(pareto_front) = Len(points)
        /\ \A k \in DOMAIN points :
              (\A j \in DOMAIN points : j # k => Dominates(points[k], points[j]))
              => pareto_front[1] = points[k]

====
